---- MODULE Spec2Model ----
(***************************************************************************)
(* YouTube Algorithm Control: the content script (src/content.js, lines    *)
(* 1-329, the "Phase 5" revision) and the background service worker        *)
(* (src/unnamed/part_000).                                                 *)
(*                                                                         *)
(* Scores and thresholds are scaled by 100 (0.2 is 20, 1.4 is 140) so that *)
(* the comparisons of the source are integer comparisons.  Times are       *)
(* milliseconds, as Date.now() gives them.                                 *)
(***************************************************************************)
EXTENDS Integers, Sequences, FiniteSets, TLC

\* ------------------------------------------------------------------ bounds

\* Number of ytd-rich-item-renderer elements the page may hold.
MaxItems == 2
\* Date.now() at construction.
StartTime == 100000
\* The last instant the clock may reach by steps of one error cooldown, by
\* steps of seconds, by steps of model gaps next to seconds, by steps of
\* quiet periods, by the startup delay and by steps of one model gap.
MaxTime == 160000
MaxTimeFine == 103000
MaxTimePool == 126000
MaxTimeObserver == 102000
MaxTimeRetry == 162000
MaxTimeStartup == 100500
MaxTimeGap == 113500
\* Failed network exchanges the service may produce in one run.
MaxFailures == 2
\* Settings changes the user may make in one run.
MaxPopupEvents == 2

\* --------------------------------------------------------- program constants

ERROR_COOLDOWN == 60000
PER_MODEL_GAP_MS == 13000
PENALTY_MS == 30000
DEBOUNCE_MS == 800
STARTUP_MS == 500
LOG_KEEP == 9

\* content.js 9-15, scaled by 100.
STRICTNESS_MAP ==
  [s \in 1..5 |->
     CASE s = 1 -> [hide |-> 5,  dim |-> 20]
       [] s = 2 -> [hide |-> 10, dim |-> 30]
       [] s = 3 -> [hide |-> 20, dim |-> 50]
       [] s = 4 -> [hide |-> 30, dim |-> 70]
       [] s = 5 -> [hide |-> 50, dim |-> 80]]

\* part_000 8-12.
MODELS == <<"gemini-2.5-flash", "gemini-2.5-flash-lite", "gemini-3-flash">>

\* ------------------------------------------------------------ input domains

\* The videos a page may show: (title, channel), the natural key of an item.
Videos == { [title |-> "a", channel |-> "x"], [title |-> "b", channel |-> "x"] }
\* Preference strings the popup may store ("" is "none set").
PrefValues == {"", "p", "q"}
\* Strictness values the popup may store (0 stands for a missing value).
StrictnessValues == {0, 3, 4}
\* Raw numbers the service may put in its JSON array (scaled by 100).
RawScores == {-30, 25, 140}

\* The preference strings of the messages the worker is sent when taken alone.
RequestPrefs == {"", "p"}
\* The one video of the pages of the content script taken alone.
PageVideo == [title |-> "a", channel |-> "x"]

NoScore == -1000
NoTimer == -1
None == "none"

VARIABLES
  now,                 \* Date.now()
  \* ---- content script (content.js)
  currentPreferences, filteringEnabled, currentStrictness,
  scoringInProgress, lastErrorTime,
  dom,                 \* the ytd-rich-item-renderer elements, in document order
  scoreMap,            \* the WeakMap element -> score (NoScore: no entry)
  scoreCtx,            \* history: the preferences each scoreMap entry was computed under
  fresh,               \* history: the elements reset by a preferences change that found
                       \* no batch in flight, and not scored since
  calls,               \* suspended processVideos calls awaiting sendMessage
  debounceTimer, lastVideoCount, startTimer,
  popupEvents,         \* settings changes so far
  \* ---- messages
  requests,            \* scoreVideos messages not yet received by the worker
  responses,           \* sendResponse results not yet received by the content script
  \* ---- background service worker (part_000)
  apiKey, scoreCache, modelIndex, modelLastUsed, errorLog,
  bg,                  \* the running handleScoreRequest call: its locals and position
  \* ---- history of the network
  lastSend,            \* per model, the time of the last fetch sent to it (0: none)
  failures,            \* failed exchanges so far
  \* ---- history of the worker
  decoded,             \* the array the running call parsed from the response (<<>>: none)
  lastModel            \* the model getNextModel returned last (0: none yet)

csVars == <<currentPreferences, filteringEnabled, currentStrictness,
            scoringInProgress, lastErrorTime, dom, scoreMap, scoreCtx, fresh, calls,
            debounceTimer, lastVideoCount, startTimer>>
msgVars == <<requests, responses>>
bgVars == <<apiKey, scoreCache, modelIndex, modelLastUsed, errorLog, bg, lastSend, failures,
           decoded, lastModel>>
vars == <<now, popupEvents, csVars, msgVars, bgVars>>

\* ------------------------------------------------------------------ helpers

Max(a, b) == IF a >= b THEN a ELSE b
Min(a, b) == IF a <= b THEN a ELSE b

RECURSIVE SeqToSet(_)
SeqToSet(s) == IF s = <<>> THEN {} ELSE {Head(s)} \cup SeqToSet(Tail(s))

\* All sequences over S of length exactly n.
RECURSIVE SeqsOfLen(_, _)
SeqsOfLen(S, n) ==
  IF n < 0 THEN {}
  ELSE IF n = 0 THEN { <<>> }
  ELSE { Append(s, x) : s \in SeqsOfLen(S, n - 1), x \in S }

\* ======================================================== content script

\* A freshly inserted element: no data-ytc-* attributes, no inline style.
NewElement(v) ==
  [video |-> v, ytcScored |-> FALSE, ytcFilter |-> "", display |-> "", opacity |-> ""]

\* The thresholds with hide and dim exchanged.
getThresholds_swapped(strictness) ==
  LET t == IF strictness \in DOMAIN STRICTNESS_MAP THEN STRICTNESS_MAP[strictness]
           ELSE STRICTNESS_MAP[3]
  IN [hide |-> t.dim, dim |-> t.hide]

\* The thresholds with the levels in reverse order: level 1 the strictest.
getThresholds_reversed(strictness) ==
  IF strictness \in DOMAIN STRICTNESS_MAP THEN STRICTNESS_MAP[6 - strictness]
  ELSE STRICTNESS_MAP[3]

\* content.js 119-121: STRICTNESS_MAP[currentStrictness] || STRICTNESS_MAP[3]
getThresholds(strictness) ==
  IF strictness \in DOMAIN STRICTNESS_MAP THEN STRICTNESS_MAP[strictness]
  ELSE STRICTNESS_MAP[3]

\* The same, with the hidden branch also clearing nothing but comparing with <=.
applyFilter_lte(el, score, strictness) ==
  LET t == getThresholds(strictness) IN
  IF score <= t.hide THEN [el EXCEPT !.display = "none", !.ytcFilter = "hidden"]
  ELSE IF score <= t.dim THEN [el EXCEPT !.opacity = "0.3", !.ytcFilter = "dimmed"]
  ELSE [el EXCEPT !.opacity = "", !.display = "", !.ytcFilter = "shown"]

\* content.js 124-145.  The hidden branch sets display only, the dimmed branch
\* sets opacity only, the shown branch clears both.
applyFilter(el, score, strictness) ==
  LET t == getThresholds(strictness) IN
  IF score < t.hide THEN [el EXCEPT !.display = "none", !.ytcFilter = "hidden"]
  ELSE IF score < t.dim THEN [el EXCEPT !.opacity = "0.3", !.ytcFilter = "dimmed"]
  ELSE [el EXCEPT !.opacity = "", !.display = "", !.ytcFilter = "shown"]

\* reapplyFilters reading data-ytc-scored instead of the score map.
reapplyFilters_scoredOnly(d, sm, enabled, strictness) ==
  IF ~enabled THEN d
  ELSE [i \in DOMAIN d |->
          IF ~d[i].ytcScored THEN d[i] ELSE applyFilter(d[i], sm[i], strictness)]

\* content.js 158-174: nothing when filtering is off; otherwise applyFilter on
\* every element that has a scoreMap entry.
reapplyFilters(d, sm, enabled, strictness) ==
  IF ~enabled THEN d
  ELSE [i \in DOMAIN d |->
          IF sm[i] = NoScore THEN d[i] ELSE applyFilter(d[i], sm[i], strictness)]

\* content.js 177-185
resetAllFilters(d) ==
  [i \in DOMAIN d |-> [d[i] EXCEPT !.opacity = "", !.display = "", !.ytcFilter = ""]]

\* content.js 188-192: only the data-ytc-scored attribute is removed.
clearScoredState(d) ==
  [i \in DOMAIN d |-> [d[i] EXCEPT !.ytcScored = FALSE]]

\* content.js 195-203; ids is the list of elements passed in.
applyPendingState(d, ids) ==
  [i \in DOMAIN d |->
     IF i \in SeqToSet(ids) /\ ~d[i].ytcScored
     THEN [d[i] EXCEPT !.opacity = "0", !.ytcFilter = "pending"]
     ELSE d[i]]

\* The selection without the filter on data-ytc-scored: every element.
unscoredVideos_all(d) == [k \in 1..Len(d) |-> k]

\* content.js 218: the elements without data-ytc-scored, in document order.
RECURSIVE UnscoredFrom(_, _)
UnscoredFrom(d, i) ==
  IF i > Len(d) THEN <<>>
  ELSE IF ~d[i].ytcScored THEN <<i>> \o UnscoredFrom(d, i + 1)
  ELSE UnscoredFrom(d, i + 1)
unscoredVideos(d) == UnscoredFrom(d, 1)

\* content.js 250-259: the message of one call.
ScoreMessage(d, ids, prefs) ==
  [videos |-> [k \in 1..Len(ids) |-> d[ids[k]].video], preferences |-> prefs]

\* The end of a call that leaves the guard as it is.
releaseGuard_keep(inProgress) == inProgress

\* content.js 301-303: finally { scoringInProgress = false }
releaseGuard(inProgress) == FALSE

\* The debounce callback without its count gate.
countChanged_always(currentCount, lastCount) == TRUE

\* content.js 315: currentCount !== lastVideoCount
countChanged(currentCount, lastCount) == currentCount # lastCount

\* The state a run of processVideos threads through: the elements, the
\* in-flight guard and what the run has sent (suspended calls and messages).
CS(d, sip, cs, rq) == [dom |-> d, scoringInProgress |-> sip, calls |-> cs, requests |-> rq]

\* processVideos without the in-flight guard of lines 233-237.
processVideos_noGuard(S, enabled, prefs, lastErr, t) ==
  IF ~enabled THEN S
  ELSE IF Len(S.dom) = 0 THEN S
  ELSE LET ids == unscoredVideos(S.dom) IN
    IF prefs = "" \/ ids = <<>> THEN S
    ELSE LET d1 == applyPendingState(S.dom, ids) IN
      IF lastErr # 0 /\ t - lastErr < ERROR_COOLDOWN THEN [S EXCEPT !.dom = d1]
      ELSE [dom |-> d1,
            scoringInProgress |-> TRUE,
            calls |-> Append(S.calls, [batch |-> ids, preferences |-> prefs]),
            requests |-> Append(S.requests, ScoreMessage(S.dom, ids, prefs))]

\* content.js 205-259: processVideos up to its await.
processVideos(S, enabled, prefs, lastErr, t) ==
  IF ~enabled THEN S
  ELSE IF Len(S.dom) = 0 THEN S
  ELSE LET ids == unscoredVideos(S.dom) IN
    IF prefs = "" \/ ids = <<>> THEN S
    ELSE LET d1 == applyPendingState(S.dom, ids) IN
      IF S.scoringInProgress THEN [S EXCEPT !.dom = d1]
      ELSE IF lastErr # 0 /\ t - lastErr < ERROR_COOLDOWN THEN [S EXCEPT !.dom = d1]
      ELSE [dom |-> d1,
            scoringInProgress |-> TRUE,
            calls |-> Append(S.calls, [batch |-> ids, preferences |-> prefs]),
            requests |-> Append(S.requests, ScoreMessage(S.dom, ids, prefs))]

\* The content script's state before a handler runs, and its state after.
CSNow == CS(dom, scoringInProgress, calls, requests)
CSInstall(S) ==
  /\ dom' = S.dom
  /\ scoringInProgress' = S.scoringInProgress
  /\ calls' = S.calls
  /\ requests' = S.requests

\* content.js 278-286, the elements: each element of the batch gets
\* data-ytc-scored and the filter of the score at its position.
markScored(d, batch, scores, strictness) ==
  [i \in DOMAIN d |->
     IF \E k \in 1..Len(batch) : batch[k] = i
     THEN LET k == CHOOSE k \in 1..Len(batch) : batch[k] = i
          IN applyFilter([d[i] EXCEPT !.ytcScored = TRUE], scores[k], strictness)
     ELSE d[i]]

\* content.js 280, the WeakMap: scoreMap.set(v.element, response.scores[i]).
storeScores(sm, batch, scores) ==
  [i \in DOMAIN sm |->
     IF \E k \in 1..Len(batch) : batch[k] = i
     THEN scores[CHOOSE k \in 1..Len(batch) : batch[k] = i]
     ELSE sm[i]]

\* content.js 265-269: the elements of a failed batch are made visible again.
unhideBatch(d, batch) ==
  [i \in DOMAIN d |->
     IF i \in SeqToSet(batch)
     THEN [d[i] EXCEPT !.opacity = "", !.display = "", !.ytcFilter = ""]
     ELSE d[i]]

\* ===================================================== background worker

\* part_000 94 and 200: `${title}|${channel}|${preferences}`
CacheKey(v, prefs) == v.title \o "|" \o v.channel \o "|" \o prefs

\* part_000 199: scores[i] when the array element is no number (a word, an
\* object): Math.min and Math.max turn it into NaN.  The message channel
\* hands NaN to the content script as null, which compares as 0 does, below
\* every hide threshold; the value chosen here compares the same way.
NaN == -2000

\* part_000 199: Math.max(0, Math.min(1, x)), scaled by 100.
Clamp(x) == IF x = NaN THEN NaN ELSE Max(0, Min(100, x))

NoCache == [k \in {} |-> 0]
CacheHas(cache, k) == k \in DOMAIN cache
CacheSet(cache, k, v) == [x \in DOMAIN cache \cup {k} |-> IF x = k THEN v ELSE cache[x]]

\* logError without the slice: every entry is kept.
logError_keepAll(log, type, status, t) ==
  Append(log, [type |-> type, status |-> status])

\* part_000 45-57: (data.errorLog || []).slice(-9), then push.  An entry keeps
\* its type and status; its time and detail text are read by nothing.
logError(log, type, status, t) ==
  LET kept == IF Len(log) > LOG_KEEP
              THEN SubSeq(log, Len(log) - LOG_KEEP + 1, Len(log)) ELSE log
  IN Append(kept, [type |-> type, status |-> status])

\* Position (1-based) in MODELS of index idx (0-based, as modelIndex is).
ModelAt(idx) == idx + 1
NumModels == Len(MODELS)

\* part_000 32: the remaining wait of a model.
ModelWait(mlu, m, t) == PER_MODEL_GAP_MS - (t - mlu[m])

\* The first model, in MODELS order, with the longest wait.
BestModel_longestWait(mlu, t) ==
  CHOOSE m \in 1..NumModels :
    /\ \A o \in 1..NumModels : ModelWait(mlu, m, t) >= ModelWait(mlu, o, t)
    /\ \A o \in 1..(m - 1) : ModelWait(mlu, o, t) < ModelWait(mlu, m, t)

\* part_000 29-38: the first model, in MODELS order, with the smallest wait.
BestModel(mlu, t) ==
  CHOOSE m \in 1..NumModels :
    /\ \A o \in 1..NumModels : ModelWait(mlu, m, t) <= ModelWait(mlu, o, t)
    /\ \A o \in 1..(m - 1) : ModelWait(mlu, o, t) > ModelWait(mlu, m, t)

\* part_000 17-39.  mi is modelIndex, mlu is modelLastUsed (0: never used).
\* The result is the model chosen and the new modelIndex.
getNextModel(mi, mlu, t) ==
  LET ready == { i \in 0..(NumModels - 1) :
                   t - mlu[ModelAt((mi + i) % NumModels)] >= PER_MODEL_GAP_MS }
  IN IF ready # {}
     THEN LET i == CHOOSE i \in ready : \A j \in ready : i <= j
              idx == (mi + i) % NumModels
          IN [model |-> ModelAt(idx), modelIndex |-> (idx + 1) % NumModels]
     ELSE [model |-> BestModel(mlu, t), modelIndex |-> mi]

\* A lookup that never hits: every video is taken as uncached.
partitionResults_miss(cache, videos, prefs) ==
  [i \in 1..Len(videos) |-> NoScore]

\* The throttled model left as it was: no penalty before the next choice.
onThrottle_noPenalty(model, mi, mlu, t) ==
  LET g == getNextModel(mi, mlu, t)
  IN [mlu |-> mlu, modelIndex |-> g.modelIndex, alt |-> g.model, retry |-> g.model # model]

\* part_000 156-159: the throttled model is blocked for 30 s more, another
\* model is asked for, and the batch is retried if it is a different one.
onThrottle(model, mi, mlu, t) ==
  LET pen == [mlu EXCEPT ![model] = t + PENALTY_MS]
      g == getNextModel(mi, pen, t)
  IN [mlu |-> pen, modelIndex |-> g.modelIndex, alt |-> g.model, retry |-> g.model # model]

\* The checks before the cache lookup without the one of the API key.
precondition_noKey(prefs, key) ==
  IF prefs = "" THEN "No preferences set" ELSE ""

\* part_000 78-86: the checks handleScoreRequest makes before it looks at the
\* cache; the result is the error it returns ("": none).
precondition(prefs, key) ==
  IF prefs = "" THEN "No preferences set"
  ELSE IF key = "" THEN "No API key set"
  ELSE ""

\* part_000 89-102: results with the cached scores in place (NoScore: null).
partitionResults(cache, videos, prefs) ==
  [i \in 1..Len(videos) |->
     IF CacheHas(cache, CacheKey(videos[i], prefs))
     THEN cache[CacheKey(videos[i], prefs)] ELSE NoScore]

\* part_000 98-100: uncachedIndices, the indices where results holds null.
RECURSIVE NullsFrom(_, _)
NullsFrom(results, i) ==
  IF i > Len(results) THEN <<>>
  ELSE IF results[i] = NoScore THEN <<i>> \o NullsFrom(results, i + 1)
  ELSE NullsFrom(results, i + 1)

\* The loop writing score k at position k of results instead of position
\* uncachedIndices[k].
WriteScores_inPlace(acc, videos, idx, prefs, scores, n) ==
  LET keys == { CacheKey(videos[idx[k]], prefs) : k \in 1..n }
      last(key) == CHOOSE k \in 1..n :
                     /\ CacheKey(videos[idx[k]], prefs) = key
                     /\ \A j \in 1..n : CacheKey(videos[idx[j]], prefs) = key => j <= k
  IN [cache |-> [key \in DOMAIN acc.cache \cup keys |->
                   IF key \in keys THEN Clamp(scores[last(key)]) ELSE acc.cache[key]],
      results |-> [i \in 1..Len(acc.results) |->
                     IF i <= n THEN Clamp(scores[i]) ELSE acc.results[i]]]

\* part_000 198-203: the loop over the first n uncached videos.
RECURSIVE WriteScores(_, _, _, _, _, _)
WriteScores(acc, videos, idx, prefs, scores, n) ==
  IF n = 0 THEN acc
  ELSE LET prev == WriteScores(acc, videos, idx, prefs, scores, n - 1)
           sc == Clamp(scores[n])
       IN [cache |-> CacheSet(prev.cache, CacheKey(videos[idx[n]], prefs), sc),
           results |-> [prev.results EXCEPT ![idx[n]] = sc]]

Ok(scores) == [error |-> "", scores |-> scores]
Err(msg) == [error |-> msg, scores |-> <<>>]

\* The decode with the scores written before the count is checked.
finishScores_writeFirst(cache, results, videos, idx, prefs, body) ==
  IF body.kind = "empty" THEN [cache |-> cache, log |-> None, result |-> Err("Empty response from Gemini")]
  ELSE IF body.kind = "unparseable" THEN [cache |-> cache, log |-> "Parse error", result |-> Err("parse")]
  ELSE IF body.kind = "nonarray" THEN [cache |-> cache, log |-> "Score mismatch", result |-> Err("Score count mismatch from LLM")]
  ELSE LET w == WriteScores([cache |-> cache, results |-> results], videos, idx, prefs,
                            body.scores, Min(Len(idx), Len(body.scores)))
       IN IF Len(body.scores) # Len(idx)
          THEN [cache |-> w.cache, log |-> "Score mismatch", result |-> Err("Score count mismatch from LLM")]
          ELSE [cache |-> w.cache, log |-> None, result |-> Ok(w.results)]

\* part_000 183-210: what the handler does with a successful HTTP response.
\* body is the text of the first candidate: empty, not JSON, JSON that is no
\* array, or an array.  The result is the cache afterwards, the
\* type of the error logged (None: nothing logged) and the value returned.
finishScores(cache, results, videos, idx, prefs, body) ==
  IF body.kind = "empty" THEN [cache |-> cache, log |-> None, result |-> Err("Empty response from Gemini")]
  ELSE IF body.kind = "unparseable" THEN [cache |-> cache, log |-> "Parse error", result |-> Err("parse")]
  ELSE IF body.kind = "nonarray" \/ Len(body.scores) # Len(idx)
       THEN [cache |-> cache, log |-> "Score mismatch", result |-> Err("Score count mismatch from LLM")]
  ELSE LET w == WriteScores([cache |-> cache, results |-> results], videos, idx, prefs,
                            body.scores, Len(idx))
       IN [cache |-> w.cache, log |-> None, result |-> Ok(w.results)]

\* ================================================================ actions

BgIdle ==
  [pc |-> "idle", videos |-> <<>>, preferences |-> "", results |-> <<>>,
   idx |-> <<>>, model |-> 0, waitUntil |-> 0, nSends |-> 0]

\* ---- time

\* The clock advances by d, up to limit.
Tick(d, limit) ==
  /\ now + d <= limit
  /\ now' = now + d
  /\ UNCHANGED <<popupEvents, csVars, msgVars, bgVars>>

\* ---- content script

\* part_000 60-65: the worker's listener clears the cache when preferences change.
bgOnChanged(cache, ch) == IF ch.hasP THEN NoCache ELSE cache

\* content.js 38-62: the content script's listener.  ch says which keys
\* changed and their new values.
onChanged(ch) ==
  LET prefs1 == IF ch.hasP THEN ch.p ELSE currentPreferences
      S1 == IF ch.hasP
            THEN processVideos(CS(resetAllFilters(clearScoredState(dom)),
                                  scoringInProgress, calls, requests),
                               filteringEnabled, prefs1, lastErrorTime, now)
            ELSE CSNow
      en1 == IF ch.hasE THEN ch.e ELSE filteringEnabled
      S2 == IF ~ch.hasE THEN S1
            ELSE IF en1 THEN processVideos(S1, en1, prefs1, lastErrorTime, now)
            ELSE [S1 EXCEPT !.dom = resetAllFilters(S1.dom)]
      st1 == IF ~ch.hasS THEN currentStrictness
             ELSE IF ch.s = 0 THEN 3 ELSE ch.s
      S3 == IF ch.hasS
            THEN [S2 EXCEPT !.dom = reapplyFilters(S2.dom, scoreMap, en1, st1)]
            ELSE S2
  IN /\ popupEvents < MaxPopupEvents
     /\ popupEvents' = popupEvents + 1
     /\ currentPreferences' = prefs1
     /\ filteringEnabled' = en1
     /\ currentStrictness' = st1
     /\ CSInstall(S3)
     /\ fresh' = IF ~ch.hasP THEN fresh
                 ELSE IF scoringInProgress THEN {} ELSE 1..Len(dom)
     /\ UNCHANGED <<now, lastErrorTime, scoreMap, scoreCtx, debounceTimer,
                    lastVideoCount, startTimer, responses,
                    modelIndex, modelLastUsed, errorLog, bg, lastSend, failures,
                    decoded, lastModel>>

\* The keys of a storage.set that changed: chrome reports only those.
Changes(p, e, s) ==
  [hasP |-> p # currentPreferences, p |-> p,
   hasE |-> e # filteringEnabled, e |-> e,
   hasS |-> (IF s = 0 THEN 3 ELSE s) # currentStrictness, s |-> s]

\* popup (part_002): the Save button stores all four settings; both listeners
\* run.  The toggle and the slider store their values when they change, so the
\* form's enabled and strictness are the stored ones when Save is clicked.
PopupSave(p, e, k, s) ==
  /\ apiKey' = k
  /\ scoreCache' = bgOnChanged(scoreCache, Changes(p, e, s))
  /\ onChanged(Changes(p, e, s))

\* popup (part_002): the strictness slider stores strictness alone.
PopupStrictness(s) ==
  /\ (IF s = 0 THEN 3 ELSE s) # currentStrictness
  /\ UNCHANGED <<apiKey, scoreCache>>
  /\ onChanged(Changes(currentPreferences, filteringEnabled, s))

\* popup (part_002): the toggle stores enabled alone.
PopupToggle ==
  /\ UNCHANGED <<apiKey, scoreCache>>
  /\ onChanged(Changes(currentPreferences, ~filteringEnabled, currentStrictness))

\* The page inserts one more ytd-rich-item-renderer; the MutationObserver
\* callback (content.js 312-321) restarts the debounce timer.
Discover(v) ==
  /\ Len(dom) < MaxItems
  /\ dom' = Append(dom, NewElement(v))
  /\ debounceTimer' = now + DEBOUNCE_MS
  /\ UNCHANGED <<now, popupEvents, currentPreferences, filteringEnabled, currentStrictness,
                 scoringInProgress, lastErrorTime, scoreMap, scoreCtx, fresh, calls,
                 lastVideoCount, startTimer, msgVars, bgVars>>

\* A mutation that leaves the ytd-rich-item-renderer elements as they are
\* (any other node added or removed under document.body): the
\* MutationObserver callback (content.js 311-313) restarts the debounce timer.
Mutation ==
  /\ debounceTimer' = now + DEBOUNCE_MS
  /\ UNCHANGED <<now, popupEvents, currentPreferences, filteringEnabled, currentStrictness,
                 scoringInProgress, lastErrorTime, dom, scoreMap, scoreCtx, fresh, calls,
                 lastVideoCount, startTimer, msgVars, bgVars>>

\* content.js 314-320: the debounce timer fires.
DebounceFire ==
  /\ debounceTimer # NoTimer
  /\ now >= debounceTimer
  /\ debounceTimer' = NoTimer
  /\ IF countChanged(Len(dom), lastVideoCount)
     THEN /\ lastVideoCount' = Len(dom)
          /\ CSInstall(processVideos(CSNow, filteringEnabled, currentPreferences,
                                     lastErrorTime, now))
     ELSE UNCHANGED <<lastVideoCount, dom, scoringInProgress, calls, requests>>
  /\ UNCHANGED <<now, popupEvents, currentPreferences, filteringEnabled, currentStrictness,
                 lastErrorTime, scoreMap, scoreCtx, fresh, startTimer, responses, bgVars>>

\* content.js 326: setTimeout(processVideos, 500).
StartTimerFire ==
  /\ startTimer # NoTimer
  /\ now >= startTimer
  /\ startTimer' = NoTimer
  /\ CSInstall(processVideos(CSNow, filteringEnabled, currentPreferences,
                             lastErrorTime, now))
  /\ UNCHANGED <<now, popupEvents, currentPreferences, filteringEnabled, currentStrictness,
                 lastErrorTime, scoreMap, scoreCtx, fresh, debounceTimer, lastVideoCount,
                 responses, bgVars>>

\* content.js 261-303: the awaited sendMessage resolves with the worker's result.
ResponseArrives ==
  /\ responses # <<>>
  /\ calls # <<>>
  /\ LET r == Head(responses)
         c == Head(calls)
     IN IF r.error # ""
        THEN /\ lastErrorTime' = now
             /\ dom' = unhideBatch(dom, c.batch)
             /\ UNCHANGED <<scoreMap, scoreCtx, fresh>>
        ELSE /\ scoreMap' = storeScores(scoreMap, c.batch, r.scores)
             /\ fresh' = fresh \ SeqToSet(c.batch)
             /\ scoreCtx' = [i \in DOMAIN scoreCtx |->
                               IF i \in SeqToSet(c.batch) THEN c.preferences
                               ELSE scoreCtx[i]]
             /\ dom' = markScored(dom, c.batch, r.scores, currentStrictness)
             /\ UNCHANGED lastErrorTime
  /\ scoringInProgress' = releaseGuard(scoringInProgress)
  /\ calls' = Tail(calls)
  /\ responses' = Tail(responses)
  /\ UNCHANGED <<now, popupEvents, currentPreferences, filteringEnabled, currentStrictness,
                 debounceTimer, lastVideoCount, startTimer, requests, bgVars>>

\* content.js 299-303: the awaited sendMessage rejects (the worker is gone
\* before it received the message); catch logs, finally releases the guard.
SendMessageRejects ==
  /\ requests # <<>>
  /\ calls # <<>>
  /\ bg.pc = "idle"
  /\ responses = <<>>
  /\ failures < MaxFailures
  /\ failures' = failures + 1
  /\ requests' = Tail(requests)
  /\ calls' = Tail(calls)
  /\ scoringInProgress' = releaseGuard(scoringInProgress)
  /\ UNCHANGED <<now, popupEvents, currentPreferences, filteringEnabled, currentStrictness,
                 lastErrorTime, dom, scoreMap, scoreCtx, fresh, debounceTimer,
                 lastVideoCount, startTimer, responses,
                 apiKey, scoreCache, modelIndex, modelLastUsed, errorLog, bg, lastSend,
                 decoded, lastModel>>

\* ---- the network

Body(kind, scores) == [kind |-> kind, scores |-> scores]

\* What the service may answer to a request for n scores: a transport error, a
\* throttling or other error status, or a success whose text is empty, is not
\* JSON, is JSON but no array, or is an array (of the right length or not, of
\* numbers or not).
Bodies(n) ==
  { Body("empty", <<>>), Body("unparseable", <<>>), Body("nonarray", <<>>) }
    \cup { Body("array", sc) : sc \in SeqsOfLen(RawScores, n) \cup SeqsOfLen({NaN}, n) }
    \cup { Body("array", sc) : sc \in SeqsOfLen({25}, n - 1) \cup SeqsOfLen({25}, n + 1) }

FetchOutcomes(n) ==
  { [kind |-> "throw", status |-> 0, body |-> Body("empty", <<>>)],
    [kind |-> "status", status |-> 429, body |-> Body("empty", <<>>)],
    [kind |-> "status", status |-> 500, body |-> Body("empty", <<>>)] }
    \cup { [kind |-> "ok", status |-> 200, body |-> b] : b \in Bodies(n) }

\* The answers of a service that throttles or fails with a status, and is
\* otherwise well behaved.
StatusOutcomes(n) ==
  { o \in FetchOutcomes(n) : o.kind = "status" \/ (o.kind = "ok" /\ o.body.kind = "array"
                                                    /\ Len(o.body.scores) = n) }

Succeeds(o, n) ==
  o.kind = "ok" /\ o.body.kind = "array" /\ Len(o.body.scores) = n

ApiError(status) == IF status = 429 THEN "API error 429" ELSE "API error 500"

\* ---- background worker

\* sendResponse(result): the call ends.
Respond(result) ==
  /\ responses' = Append(responses, result)
  /\ bg' = BgIdle

\* part_000 132-144 (and 162-169 for the fallback): the model is marked used
\* and the request is sent to it.
SendTo(m, mlu) ==
  /\ modelLastUsed' = [mlu EXCEPT ![m] = now]
  /\ lastSend' = [lastSend EXCEPT ![m] = now]

\* part_000 68-132: the worker receives a scoreVideos message and runs
\* handleScoreRequest up to its first wait: the cooldown wait or the fetch.
BgReceive ==
  /\ bg.pc = "idle"
  /\ requests # <<>>
  /\ requests' = Tail(requests)
  /\ LET m == Head(requests)
         results == partitionResults(scoreCache, m.videos, m.preferences)
         idx == NullsFrom(results, 1)
         g == getNextModel(modelIndex, modelLastUsed, now)
         timeSince == now - modelLastUsed[g.model]
         run == [pc |-> "fetching", videos |-> m.videos, preferences |-> m.preferences,
                 results |-> results, idx |-> idx, model |-> g.model,
                 waitUntil |-> 0, nSends |-> 1]
     IN IF precondition(m.preferences, apiKey) # ""
        THEN /\ Respond(Err(precondition(m.preferences, apiKey)))
             /\ UNCHANGED <<modelIndex, modelLastUsed, lastSend, lastModel>>
        ELSE IF idx = <<>>
        THEN /\ Respond(Ok(results))
             /\ UNCHANGED <<modelIndex, modelLastUsed, lastSend, lastModel>>
        ELSE /\ modelIndex' = g.modelIndex
             /\ lastModel' = g.model
             /\ UNCHANGED responses
             /\ IF timeSince < PER_MODEL_GAP_MS
                THEN /\ bg' = [run EXCEPT !.pc = "waiting", !.nSends = 0,
                                          !.waitUntil = now + (PER_MODEL_GAP_MS - timeSince)]
                     /\ UNCHANGED <<modelLastUsed, lastSend>>
                ELSE /\ bg' = run
                     /\ SendTo(g.model, modelLastUsed)
  /\ decoded' = <<>>
  /\ UNCHANGED <<now, popupEvents, csVars, apiKey, scoreCache, errorLog, failures>>

\* part_000 130-144: the cooldown wait is over; the request is sent.
BgWake ==
  /\ bg.pc = "waiting"
  /\ now >= bg.waitUntil
  /\ bg' = [bg EXCEPT !.pc = "fetching", !.nSends = 1]
  /\ SendTo(bg.model, modelLastUsed)
  /\ UNCHANGED <<now, popupEvents, csVars, msgVars, apiKey, scoreCache, modelIndex, errorLog,
                 failures, decoded, lastModel>>

\* part_000 183-210 for a response that is ok.
Decode(body) ==
  LET f == finishScores(scoreCache, bg.results, bg.videos, bg.idx, bg.preferences, body)
  IN /\ scoreCache' = f.cache
     /\ errorLog' = IF f.log = None THEN errorLog ELSE logError(errorLog, f.log, 0, now)
     /\ decoded' = IF f.result.error = "" THEN body.scores ELSE decoded
     /\ Respond(f.result)

\* part_000 145-181: the first fetch settles.
BgFetchResult(o) ==
  /\ bg.pc = "fetching"
  /\ Succeeds(o, Len(bg.idx)) \/ failures < MaxFailures
  /\ failures' = IF Succeeds(o, Len(bg.idx)) THEN failures ELSE failures + 1
  /\ IF o.kind = "throw"
     THEN /\ errorLog' = logError(errorLog, "Fetch error", 0, now)
          /\ Respond(Err("fetch failed"))
          /\ UNCHANGED <<scoreCache, modelIndex, modelLastUsed, lastSend, decoded, lastModel>>
     ELSE IF o.kind = "status"
     THEN /\ errorLog' = logError(errorLog, "API error", o.status, now)
          /\ UNCHANGED <<scoreCache, decoded>>
          /\ IF o.status = 429
             THEN LET th == onThrottle(bg.model, modelIndex, modelLastUsed, now)
                  IN /\ modelIndex' = th.modelIndex
                     /\ lastModel' = th.alt
                     /\ IF th.retry
                        THEN /\ SendTo(th.alt, th.mlu)
                             /\ bg' = [bg EXCEPT !.pc = "fetchingAlt", !.model = th.alt,
                                                 !.nSends = 2]
                             /\ UNCHANGED responses
                        ELSE /\ modelLastUsed' = th.mlu
                             /\ Respond(Err("API error 429 (all models rate-limited)"))
                             /\ UNCHANGED lastSend
             ELSE /\ Respond(Err(ApiError(o.status)))
                  /\ UNCHANGED <<modelIndex, modelLastUsed, lastSend, lastModel>>
     ELSE /\ Decode(o.body)
          /\ UNCHANGED <<modelIndex, modelLastUsed, lastSend, lastModel>>
  /\ UNCHANGED <<now, popupEvents, csVars, requests, apiKey>>

\* part_000 163-174 and 207-210: the fallback fetch settles.  A transport
\* error here is caught by the handler's outer catch.
BgFallbackResult(o) ==
  /\ bg.pc = "fetchingAlt"
  /\ Succeeds(o, Len(bg.idx)) \/ failures < MaxFailures
  /\ failures' = IF Succeeds(o, Len(bg.idx)) THEN failures ELSE failures + 1
  /\ IF o.kind = "throw"
     THEN /\ errorLog' = logError(errorLog, "Parse error", 0, now)
          /\ Respond(Err("fetch failed"))
          /\ UNCHANGED <<scoreCache, decoded>>
     ELSE IF o.kind = "status"
     THEN /\ errorLog' = logError(errorLog, "API error (fallback)", o.status, now)
          /\ Respond(Err(ApiError(o.status)))
          /\ UNCHANGED <<scoreCache, decoded>>
     ELSE Decode(o.body)
  /\ UNCHANGED <<now, popupEvents, csVars, requests, apiKey, modelIndex, modelLastUsed, lastSend,
                 lastModel>>

\* ---- the worker and the content script each taken alone

\* What handleScoreRequest may return for a message of n videos (part_000
\* 77-211): an error, or n scores, each clamped.
WorkerResults(n) ==
  { Err("failed") } \cup { Ok(sc) : sc \in SeqsOfLen({ Clamp(x) : x \in RawScores \cup {NaN} }, n) }

\* part_000 68-75 seen from the content script: the worker takes the message
\* and answers it with one of the results handleScoreRequest can return.
WorkerReplies(r) ==
  /\ requests # <<>>
  /\ responses = <<>>
  /\ requests' = Tail(requests)
  /\ responses' = Append(responses, r)
  /\ UNCHANGED <<now, popupEvents, csVars, bgVars>>

\* content.js 250-259 seen from the worker: a content script sends a
\* scoreVideos message, one at a time.
ContentSends(videos, prefs) ==
  /\ bg.pc = "idle"
  /\ requests = <<>>
  /\ requests' = <<[videos |-> videos, preferences |-> prefs]>>
  /\ responses' = <<>>
  /\ UNCHANGED <<now, popupEvents, csVars, bgVars>>

\* part_000 60-65 seen from the worker: the stored preferences change.
PreferencesChange ==
  /\ scoreCache' = bgOnChanged(scoreCache, [hasP |-> TRUE])
  /\ UNCHANGED <<now, popupEvents, csVars, msgVars, apiKey, modelIndex, modelLastUsed,
                 errorLog, bg, lastSend, failures, decoded, lastModel>>

\* popup (part_002): the API key is stored.
ApiKeyChange(k) ==
  /\ k # apiKey
  /\ apiKey' = k
  /\ UNCHANGED <<now, popupEvents, csVars, msgVars, scoreCache, modelIndex, modelLastUsed,
                 errorLog, bg, lastSend, failures, decoded, lastModel>>

\* part_000 45-57: one call of logError, as the handler makes it on a failure.
LogErrorCall(type, status) ==
  /\ errorLog' = logError(errorLog, type, status, now)
  /\ UNCHANGED <<now, popupEvents, csVars, msgVars, apiKey, scoreCache, modelIndex,
                 modelLastUsed, bg, lastSend, failures, decoded, lastModel>>

\* ============================================================ specifications

\* content.js 17-35 and part_000 13-14, 42: the state once the stored
\* settings are loaded; s is the stored strictness (0: none stored), cache
\* the worker's scoreCache (the worker outlives the pages it serves).
LoadedWith(p, e, s, k, cache) ==
  /\ now = StartTime
  /\ popupEvents = 0
  /\ currentPreferences = p
  /\ filteringEnabled = e
  /\ currentStrictness = (IF s = 0 THEN 3 ELSE s)
  /\ scoringInProgress = FALSE
  /\ lastErrorTime = 0
  /\ dom = <<>>
  /\ scoreMap = [i \in 1..MaxItems |-> NoScore]
  /\ scoreCtx = [i \in 1..MaxItems |-> ""]
  /\ fresh = {}
  /\ calls = <<>>
  /\ debounceTimer = NoTimer
  /\ lastVideoCount = 0
  /\ startTimer = StartTime + STARTUP_MS
  /\ requests = <<>>
  /\ responses = <<>>
  /\ apiKey = k
  /\ scoreCache = cache
  /\ modelIndex = 0
  /\ modelLastUsed = [m \in 1..NumModels |-> 0]
  /\ errorLog = <<>>
  /\ bg = BgIdle
  /\ lastSend = [m \in 1..NumModels |-> 0]
  /\ failures = 0
  /\ decoded = <<>>
  /\ lastModel = 0

\* The same with a worker that starts with the page: its cache is empty.
Loaded(p, e, s, k) == LoadedWith(p, e, s, k, NoCache)

\* The content script and the worker together, the settings as stored.
Init == \E k \in {"", "key"} : Loaded("p", TRUE, 3, k)

Next ==
  \/ Tick(STARTUP_MS, MaxTimeStartup)
  \/ Tick(PER_MODEL_GAP_MS, MaxTimeGap)
  \/ Tick(ERROR_COOLDOWN, MaxTime)
  \/ \E p \in {"p", "q"} : PopupSave(p, filteringEnabled, apiKey, currentStrictness)
  \/ Discover(PageVideo)
  \/ DebounceFire
  \/ StartTimerFire
  \/ ResponseArrives
  \/ SendMessageRejects
  \/ BgReceive
  \/ BgWake
  \/ \E o \in FetchOutcomes(Len(bg.idx)) : BgFetchResult(o)
  \/ \E o \in FetchOutcomes(Len(bg.idx)) : BgFallbackResult(o)

Spec == Init /\ [][Next]_vars

\* The content script and the popup, the worker seen through its replies.
InitUI ==
  \E p \in PrefValues, e \in BOOLEAN, s \in StrictnessValues : Loaded(p, e, s, "key")

NextUI ==
  \/ Tick(ERROR_COOLDOWN, MaxTime)
  \/ \E p \in PrefValues : PopupSave(p, filteringEnabled, "key", currentStrictness)
  \/ \E s \in StrictnessValues : PopupStrictness(s)
  \/ PopupToggle
  \/ Discover(PageVideo)
  \/ DebounceFire
  \/ StartTimerFire
  \/ ResponseArrives
  \/ SendMessageRejects
  \/ \E r \in WorkerResults(IF requests = <<>> THEN 0 ELSE Len(Head(requests).videos)) :
       WorkerReplies(r)

SpecUI == InitUI /\ [][NextUI]_vars

\* The worker alone, its messages sent by one content script.
InitBG == \E k \in {"", "key"} : Loaded("", TRUE, 3, k)

NextBG ==
  \/ Tick(ERROR_COOLDOWN, MaxTime)
  \/ \E n \in 1..MaxItems : \E vs \in SeqsOfLen(Videos, n) : \E p \in RequestPrefs :
       ContentSends(vs, p)
  \/ PreferencesChange
  \/ \E k \in {"", "key"} : ApiKeyChange(k)
  \/ BgReceive
  \/ BgWake
  \/ \E o \in FetchOutcomes(Len(bg.idx)) : BgFetchResult(o)
  \/ \E o \in FetchOutcomes(Len(bg.idx)) : BgFallbackResult(o)

SpecBG == InitBG /\ [][NextBG]_vars

\* The worker alone with a clock that advances by seconds: the endpoint pool.
InitPool == Loaded("", TRUE, 3, "key")

NextPool ==
  \/ Tick(1000, MaxTimeFine)
  \/ Tick(PER_MODEL_GAP_MS, MaxTimePool)
  \/ ContentSends(<<PageVideo>>, "p")
  \/ PreferencesChange
  \/ BgReceive
  \/ BgWake
  \/ \E o \in StatusOutcomes(Len(bg.idx)) : BgFetchResult(o)
  \/ \E o \in StatusOutcomes(Len(bg.idx)) : BgFallbackResult(o)

SpecPool == InitPool /\ [][NextPool]_vars

\* The observer of the content script: the page adds elements and changes in
\* other ways, the clock advances by half and by whole quiet periods (and by
\* error cooldowns), the worker is seen through its replies.
InitObserver == Loaded("p", TRUE, 3, "key")

NextObserver ==
  \/ Tick(400, MaxTimeObserver)
  \/ Tick(DEBOUNCE_MS, MaxTimeObserver)
  \/ Tick(ERROR_COOLDOWN, MaxTime)
  \/ Discover(PageVideo)
  \/ Mutation
  \/ DebounceFire
  \/ StartTimerFire
  \/ ResponseArrives
  \/ \E r \in WorkerResults(IF requests = <<>> THEN 0 ELSE Len(Head(requests).videos)) :
       WorkerReplies(r)

SpecObserver == InitObserver /\ [][NextObserver]_vars

\* Videos whose titles and channels hold the character that separates the
\* parts of a cache key (YouTube puts no limit on it in either).
KeyVideos ==
  { [title |-> "a", channel |-> "b|c"], [title |-> "a|b", channel |-> "c"],
    [title |-> "a", channel |-> "c"] }

\* The worker with a key stored, sent one of these videos at a time by a
\* content script whose preferences stay as they are.
InitKeys == Loaded("", TRUE, 3, "key")

NextKeys ==
  \/ Tick(PER_MODEL_GAP_MS, MaxTimePool)
  \/ \E v \in KeyVideos : ContentSends(<<v>>, "p")
  \/ BgReceive
  \/ BgWake
  \/ \E o \in StatusOutcomes(Len(bg.idx)) : BgFetchResult(o)
  \/ \E o \in StatusOutcomes(Len(bg.idx)) : BgFallbackResult(o)

SpecKeys == InitKeys /\ [][NextKeys]_vars

\* The content script whose scoring messages settle: the worker answers a
\* message it was sent, or the message fails, and an answer sent arrives.
MessageSettles ==
  \/ SendMessageRejects
  \/ \E r \in WorkerResults(IF requests = <<>> THEN 0 ELSE Len(Head(requests).videos)) :
       WorkerReplies(r)

NextGuard ==
  \/ Tick(DEBOUNCE_MS, MaxTimeObserver)
  \/ Tick(ERROR_COOLDOWN, MaxTime)
  \/ \E p \in {"p", "q"} : PopupSave(p, filteringEnabled, "key", currentStrictness)
  \/ Discover(PageVideo)
  \/ DebounceFire
  \/ StartTimerFire
  \/ ResponseArrives
  \/ MessageSettles

SpecGuard ==
  InitObserver /\ [][NextGuard]_vars /\ WF_vars(MessageSettles) /\ WF_vars(ResponseArrives)

\* Timers fire when they are due: the clock does not advance past a due
\* timer, nor while a message or a reply is on its way.
Prompt ==
  /\ debounceTimer = NoTimer \/ now < debounceTimer
  /\ startTimer = NoTimer \/ now < startTimer
  /\ requests = <<>> /\ responses = <<>>

\* The clock of the retry: quiet periods while the page loads, one error
\* cooldown, and quiet periods again after it.
RetryTick ==
  /\ Prompt
  /\ \/ Tick(DEBOUNCE_MS, MaxTimeObserver)
     \/ Tick(ERROR_COOLDOWN, MaxTimeRetry)
     \/ now >= StartTime + ERROR_COOLDOWN /\ Tick(DEBOUNCE_MS, MaxTimeRetry)

\* The content script left to itself after the page has loaded: the settings
\* stay as they are, the page mutates, timers fire when due, messages settle,
\* and the clock runs past one error cooldown.
NextRetry ==
  \/ RetryTick
  \/ Discover(PageVideo)
  \/ now + DEBOUNCE_MS <= MaxTimeRetry /\ Mutation
  \/ DebounceFire
  \/ StartTimerFire
  \/ ResponseArrives
  \/ \E r \in WorkerResults(IF requests = <<>> THEN 0 ELSE Len(Head(requests).videos)) :
       WorkerReplies(r)

SpecRetry ==
  /\ InitObserver /\ [][NextRetry]_vars
  /\ WF_vars(DebounceFire) /\ WF_vars(StartTimerFire) /\ WF_vars(ResponseArrives)
  /\ WF_vars(\E r \in WorkerResults(IF requests = <<>> THEN 0 ELSE Len(Head(requests).videos)) :
               WorkerReplies(r))
  /\ WF_vars(RetryTick)

\* The error log alone: any sequence of logError calls, of the kinds the
\* handler logs (part_000 146, 153, 194).
LogKinds ==
  { [type |-> "Fetch error", status |-> 0], [type |-> "API error", status |-> 429],
    [type |-> "Score mismatch", status |-> 0] }

InitLog == Loaded("", TRUE, 3, "key")

NextLog == \E e \in LogKinds : LogErrorCall(e.type, e.status)

SpecLog == InitLog /\ [][NextLog]_vars

\* A page loaded while the worker is running: the worker may hold the score
\* of a video from an earlier page, under the same preferences.
WarmCaches == { NoCache, CacheSet(NoCache, CacheKey(PageVideo, "p"), Clamp(25)) }

InitReload == \E cache \in WarmCaches : LoadedWith("p", TRUE, 3, "key", cache)

NextReload ==
  \/ Tick(STARTUP_MS, MaxTimeStartup)
  \/ Tick(PER_MODEL_GAP_MS, MaxTimeGap)
  \/ \E v \in Videos : Discover(v)
  \/ DebounceFire
  \/ StartTimerFire
  \/ ResponseArrives
  \/ BgReceive
  \/ \E o \in FetchOutcomes(Len(bg.idx)) : BgFetchResult(o)
  \/ \E o \in FetchOutcomes(Len(bg.idx)) : BgFallbackResult(o)

SpecReload == InitReload /\ [][NextReload]_vars

\* The filter alone: one element whose batch is in flight, the worker's reply
\* with its score on its way; x is the score, s the stored strictness.
InitFilter ==
  \E x \in 0..100, s \in 1..6 :
    /\ now = StartTime
    /\ popupEvents = 0
    /\ currentPreferences = "p"
    /\ filteringEnabled = TRUE
    /\ currentStrictness = s
    /\ scoringInProgress = TRUE
    /\ lastErrorTime = 0
    /\ dom = applyPendingState(<<NewElement(PageVideo)>>, <<1>>)
    /\ scoreMap = [i \in 1..MaxItems |-> NoScore]
    /\ scoreCtx = [i \in 1..MaxItems |-> ""]
    /\ fresh = {}
    /\ calls = <<[batch |-> <<1>>, preferences |-> "p"]>>
    /\ debounceTimer = NoTimer
    /\ lastVideoCount = 1
    /\ startTimer = NoTimer
    /\ requests = <<>>
    /\ responses = <<Ok(<<x>>)>>
    /\ apiKey = "key"
    /\ scoreCache = NoCache
    /\ modelIndex = 0
    /\ modelLastUsed = [m \in 1..NumModels |-> 0]
    /\ errorLog = <<>>
    /\ bg = BgIdle
    /\ lastSend = [m \in 1..NumModels |-> 0]
    /\ failures = 0
    /\ decoded = <<>>
    /\ lastModel = 0

NextFilter ==
  \/ ResponseArrives
  \/ \E s \in 1..6 : PopupStrictness(s)

SpecFilter == InitFilter /\ [][NextFilter]_vars

\* ================================================================ properties

\* The class a score has under the thresholds of a strictness level.
FilterClass(score, strictness) ==
  IF score < getThresholds(strictness).hide THEN "hidden"
  ELSE IF score < getThresholds(strictness).dim THEN "dimmed"
  ELSE "shown"

\* What the page shows of an element: display and opacity, not the label.
VisualClass(el) ==
  IF el.display = "none" THEN "hidden"
  ELSE IF el.opacity = "0.3" THEN "dimmed"
  ELSE IF el.opacity = "" THEN "shown"
  ELSE "pending"

Items == 1..Len(dom)

\* C1.  At most one scoring request of a content script is outstanding in any
\* state, and a run of processVideos that begins while scoringInProgress is
\* set sends no message and leaves no call behind to run later.
C1_SingleFlight ==
  /\ [](/\ Len(calls) <= 1
        /\ Len(requests) + Len(responses) <= Len(calls)
        /\ (scoringInProgress <=> calls # <<>>))
  /\ [][scoringInProgress =>
          /\ Len(calls') <= Len(calls)
          /\ Len(requests') <= Len(requests)]_vars

\* C1: a batch is in flight and a later run of processVideos, dropped by the
\* guard, has put an element outside that batch into the pending state.
C1_Dropped ==
  /\ scoringInProgress
  /\ Len(calls) = 1
  /\ \E i \in Items :
       /\ dom[i].ytcFilter = "pending"
       /\ i \notin SeqToSet(Head(calls).batch)

\* Neither hidden nor dimmed: displayed, and opaque or waiting for its score.
NotFiltered(el) == el.display = "" /\ el.opacity \in {"", "0"}

\* C2.  An element reset by a preferences change that found no batch in
\* flight, and not scored since by a batch sent under the new preferences, is
\* hidden or dimmed by no later event under those preferences.
C2_ResetStaysVisible ==
  [][\A i \in fresh \cap fresh' :
       (currentPreferences' = currentPreferences /\ NotFiltered(dom[i]))
         => NotFiltered(dom'[i])]_vars

\* C3.  The score stored for an element marked scored was computed under the
\* current preferences, whatever changed while its batch was in flight.
C3_ScoredUnderCurrent ==
  \A i \in Items : dom[i].ytcScored => scoreCtx[i] = currentPreferences

\* A step of the listener in which strictness alone changes.
StrictnessStep ==
  /\ currentStrictness' # currentStrictness
  /\ currentPreferences' = currentPreferences
  /\ filteringEnabled' = filteringEnabled

\* What a strictness change leaves alone: no message, no call, no network
\* send, no data-ytc-scored change and no stored score changed.
StrictnessFrame ==
  /\ requests' = requests
  /\ calls' = calls
  /\ scoringInProgress' = scoringInProgress
  /\ lastSend' = lastSend
  /\ bg' = bg
  /\ scoreMap' = scoreMap
  /\ \A i \in Items : dom'[i].ytcScored = dom[i].ytcScored

\* C6 as stated.  A strictness change dispatches nothing, changes no scored
\* state and no stored score, and leaves every element that has a stored score
\* with the filter of that score under the new thresholds.
C6_ReappliesToAll ==
  [][StrictnessStep =>
       /\ StrictnessFrame
       /\ \A i \in Items :
            scoreMap[i] # NoScore
              => dom'[i].ytcFilter = FilterClass(scoreMap[i], currentStrictness')]_vars

\* C6, amended.  A strictness change dispatches nothing and changes no scored
\* state and no stored score; while filtering is enabled it leaves every
\* element that has a stored score with the filter of that score under the new
\* thresholds, and while filtering is disabled it changes no element.
C6_ReappliesWhenEnabled ==
  [][StrictnessStep =>
       /\ StrictnessFrame
       /\ IF filteringEnabled
          THEN \A i \in Items :
                 scoreMap[i] # NoScore
                   => dom'[i].ytcFilter = FilterClass(scoreMap[i], currentStrictness')
          ELSE dom' = dom]_vars

\* C6: a strictness change has moved an element that was hidden at level 4
\* into the dimmed class of level 3 (only reapplyFilters leaves that label on
\* an element whose display is still none).
C6_Reapplied ==
  /\ filteringEnabled
  /\ currentStrictness = 3
  /\ \E i \in Items :
       /\ scoreMap[i] = 25
       /\ dom[i].ytcFilter = "dimmed"
       /\ dom[i].display = "none"

\* C7.  While filtering is enabled, what the page shows of a scored element
\* whose filter is in force (display and opacity) is the class of its stored
\* score under the current thresholds.
C7_VisibilityMatchesClass ==
  filteringEnabled =>
    \A i \in Items :
      (dom[i].ytcScored /\ dom[i].ytcFilter \in {"hidden", "dimmed", "shown"})
        => VisualClass(dom[i]) = FilterClass(scoreMap[i], currentStrictness)

\* C8.  applyFilter compares strictly below: a score under hide is hidden, a
\* score from hide up to but excluding dim is dimmed, a score of dim or more
\* is shown, and the page shows that class when the filter is first applied;
\* with hide = 0.2 and dim = 0.5 (level 3), 0.1 is hidden, 0.35 dimmed, 0.7
\* shown, and the boundaries 0.2 and 0.5 are dimmed and shown.
C8_StrictBelow ==
  \A i \in Items :
    dom[i].ytcScored =>
      LET t == getThresholds(currentStrictness)
          sc == scoreMap[i]
          class == dom[i].ytcFilter
      IN /\ sc < t.hide => class = "hidden"
         /\ (t.hide <= sc /\ sc < t.dim) => class = "dimmed"
         /\ sc >= t.dim => class = "shown"
         /\ popupEvents = 0 => VisualClass(dom[i]) = class
         /\ currentStrictness = 3 =>
              /\ t = [hide |-> 20, dim |-> 50]
              /\ sc = 10 => class = "hidden"
              /\ sc = 35 => class = "dimmed"
              /\ sc = 70 => class = "shown"
              /\ sc = 20 => class = "dimmed"
              /\ sc = 50 => class = "shown"

\* C8: the filter has been applied at level 3 to a score on the hide boundary.
C8_Boundary ==
  /\ popupEvents = 0
  /\ currentStrictness = 3
  /\ \E i \in Items :
       /\ dom[i].ytcScored
       /\ scoreMap[i] = 20
       /\ dom[i].ytcFilter = "dimmed"
       /\ dom[i].opacity = "0.3"

Last(s) == s[Len(s)]

\* The worker takes a message it will score: preferences and API key are set.
TakesMessage ==
  /\ bg.pc = "idle"
  /\ requests # <<>>
  /\ requests' = Tail(requests)
  /\ Head(requests).preferences # ""
  /\ apiKey # ""

\* The cache entry of video i of message m, if there is one.
Hit(m, i) == CacheHas(scoreCache, CacheKey(m.videos[i], m.preferences))
Cached(m, i) == scoreCache[CacheKey(m.videos[i], m.preferences)]

\* C4.  While the preferences stay as they are a score written to the cache
\* stays there; a successful call writes the score of every video it sent; a
\* later call returns the cached score of a cached video and keeps it out of
\* the network request; and a call whose videos are all cached answers at
\* once, with no network send.
C4_CachedNotSent ==
  /\ [](bg.pc # "idle" =>
          \A k \in 1..Len(bg.idx) :
            ~CacheHas(scoreCache, CacheKey(bg.videos[bg.idx[k]], bg.preferences)))
  /\ [][\/ scoreCache' = NoCache
        \/ \A key \in DOMAIN scoreCache :
             key \in DOMAIN scoreCache' /\ scoreCache'[key] = scoreCache[key]]_vars
  /\ [][TakesMessage =>
          LET m == Head(requests)
              n == Len(m.videos)
          IN IF \A i \in 1..n : Hit(m, i)
             THEN /\ responses' = Append(responses, Ok([i \in 1..n |-> Cached(m, i)]))
                  /\ bg'.pc = "idle"
                  /\ lastSend' = lastSend
             ELSE /\ bg'.pc # "idle"
                  /\ responses' = responses
                  /\ \A i \in 1..n :
                       Hit(m, i) => /\ bg'.results[i] = Cached(m, i)
                                    /\ i \notin SeqToSet(bg'.idx)]_vars
  /\ [][(bg.pc \in {"fetching", "fetchingAlt"} /\ Len(responses') > Len(responses)
           /\ Last(responses').error = "") =>
          \A i \in 1..Len(bg.videos) :
            IF i \in SeqToSet(bg.idx)
            THEN CacheHas(scoreCache', CacheKey(bg.videos[i], bg.preferences))
            ELSE Last(responses').scores[i] = bg.results[i]]_vars

\* C4: a request is out for a batch of which one video was cached and is
\* left out of the request.
C4_MixedBatch ==
  /\ bg.pc = "fetching"
  /\ Len(bg.idx) = 1
  /\ Len(bg.videos) = 2
  /\ \E i \in 1..2 : bg.results[i] # NoScore /\ bg.results[i] = Cached(bg, i)

\* C5.  A failed batch is all or nothing: a fetch that fails, whatever the
\* failure, writes nothing to scoreCache and, unless the batch is retried,
\* returns an error; a call that returns an error has written nothing; and the
\* content script, given an error, marks no element scored and stores no score.
C5_AllOrNothing ==
  /\ [][failures' > failures =>
          /\ scoreCache' = scoreCache
          /\ responses' = responses \/ Last(responses').error # ""]_vars
  /\ [][(Len(responses') > Len(responses) /\ Last(responses').error # "") =>
          scoreCache' = scoreCache]_vars
  /\ [][(responses # <<>> /\ responses' = Tail(responses) /\ Head(responses).error # "") =>
          /\ scoreMap' = scoreMap
          /\ \A i \in Items : dom'[i].ytcScored = dom[i].ytcScored]_vars

\* C5: the service answered with the wrong number of scores; the call failed,
\* the cache is empty and the element of the batch is unscored and visible.
C5_MismatchFailed ==
  /\ errorLog # <<>>
  /\ Last(errorLog).type = "Score mismatch"
  /\ scoreCache = NoCache
  /\ lastErrorTime = now
  /\ ~scoringInProgress
  /\ \E i \in Items :
       /\ ~dom[i].ytcScored
       /\ scoreMap[i] = NoScore
       /\ dom[i].ytcFilter = ""

\* The first send of a call is answered with status 429.
FirstSendThrottled ==
  /\ bg.pc = "fetching"
  /\ errorLog' # errorLog
  /\ Last(errorLog') = [type |-> "API error", status |-> 429]

\* C9.  No call makes more than two network sends.  When the first send is
\* answered with 429 the model is blocked for 30 s more and getNextModel is
\* asked again: a different model gets the same batch at once, as the second
\* send; the same model ends the call with the all-rate-limited error.  The
\* second send ends the call whatever comes back: a success that decodes gives
\* every video of the batch a score, anything else is an error, and nothing
\* more is sent.
C9_ThrottleFallback ==
  /\ [](bg.nSends <= 2)
  /\ [][FirstSendThrottled =>
          LET pen == [modelLastUsed EXCEPT ![bg.model] = now + PENALTY_MS]
              g == getNextModel(modelIndex, pen, now)
          IN /\ modelLastUsed'[bg.model] = now + PENALTY_MS
             /\ IF g.model # bg.model
                THEN /\ bg' = [bg EXCEPT !.pc = "fetchingAlt", !.model = g.model, !.nSends = 2]
                     /\ lastSend' = [lastSend EXCEPT ![g.model] = now]
                     /\ responses' = responses
                ELSE /\ bg'.pc = "idle"
                     /\ lastSend' = lastSend
                     /\ responses' = Append(responses,
                                            Err("API error 429 (all models rate-limited)"))]_vars
  /\ [][(bg.pc = "fetchingAlt" /\ bg' # bg) =>
          /\ bg'.pc = "idle"
          /\ lastSend' = lastSend
          /\ Len(responses') = Len(responses) + 1
          /\ IF failures' = failures
             THEN /\ Last(responses').error = ""
                  /\ Len(Last(responses').scores) = Len(bg.videos)
                  /\ \A i \in 1..Len(bg.videos) : Last(responses').scores[i] # NoScore
             ELSE Last(responses').error # ""]_vars

\* C9: the first model answered 429 and is blocked, the batch went to another
\* model at once and that send succeeded: the call returned scores.
C9_FallbackScored ==
  /\ bg.pc = "idle"
  /\ responses # <<>>
  /\ Head(responses).error = ""
  /\ errorLog # <<>>
  /\ Last(errorLog) = [type |-> "API error", status |-> 429]
  /\ \E m, a \in 1..NumModels :
       /\ m # a
       /\ modelLastUsed[m] = now + PENALTY_MS
       /\ lastSend[m] = now
       /\ lastSend[a] = now

\* C10.  Two consecutive sends to one model, the second a first send or a
\* fallback send, are at least PER_MODEL_GAP_MS apart.
C10_GapRespected ==
  [][\A m \in 1..NumModels :
       lastSend'[m] # lastSend[m] =>
         (lastSend[m] = 0 \/ lastSend'[m] - lastSend[m] >= PER_MODEL_GAP_MS)]_vars

\* A suspended call of processVideos resumes and ends in failure: the worker
\* answered with an error, or the message itself failed.
FailedBatchStep ==
  /\ calls # <<>>
  /\ calls' = Tail(calls)
  /\ (responses # <<>> /\ responses' = Tail(responses)) => Head(responses).error # ""

\* processVideos sends a scoring message.
DispatchStep == Len(calls') > Len(calls)

\* C11.  When a batch ends in failure, by an error result or by the message
\* failing, every element of the batch is displayed and opaque once
\* processVideos returns.
C11_FailOpen ==
  [][FailedBatchStep =>
       \A i \in SeqToSet(Head(calls).batch) :
         dom'[i].display = "" /\ dom'[i].opacity = ""]_vars

\* C12.  An element becomes pending only in the step that sends the batch it
\* belongs to: a run of processVideos that finds a batch in flight, or the
\* error cooldown running, puts no element into the pending state.
C12_PendingOnlyInFlight ==
  [][\A i \in Items :
       (dom[i].ytcFilter # "pending" /\ dom'[i].ytcFilter = "pending")
         => /\ ~scoringInProgress
            /\ DispatchStep
            /\ i \in SeqToSet(Last(calls').batch)]_vars

\* C13.  Every failed batch records the time of the failure, and no batch is
\* sent within ERROR_COOLDOWN of the recorded time.
C13_CooldownAfterFailure ==
  /\ [][FailedBatchStep => lastErrorTime' = now]_vars
  /\ [][DispatchStep =>
          (lastErrorTime = 0 \/ now - lastErrorTime >= ERROR_COOLDOWN)]_vars

\* C14.  While filtering is disabled every element is displayed, opaque and
\* carries no hidden, dimmed or pending label, and no batch is sent.
C14_DisabledShowsAll ==
  /\ [](~filteringEnabled =>
          \A i \in Items :
            /\ dom[i].display = ""
            /\ dom[i].opacity = ""
            /\ dom[i].ytcFilter \notin {"hidden", "dimmed", "pending"})
  /\ [][~filteringEnabled' => ~DispatchStep]_vars

\* C15.  When filtering is enabled again with the preferences unchanged, every
\* scored element shows the class of its stored score under the current
\* thresholds, and no batch is sent for a scored element.
C15_EnableRestoresFilters ==
  [][(~filteringEnabled /\ filteringEnabled' /\ currentPreferences' = currentPreferences) =>
       \A i \in Items :
         dom[i].ytcScored =>
           /\ VisualClass(dom'[i]) = FilterClass(scoreMap[i], currentStrictness')
           /\ DispatchStep => i \notin SeqToSet(Last(calls').batch)]_vars


\* C16.  Every score in the worker's cache, every score in a successful reply
\* and the score of every scored element lies in [0,1] (0..100 here).
C16_ScoresInRange ==
  /\ \A k \in DOMAIN scoreCache : scoreCache[k] \in 0..100
  /\ \A r \in 1..Len(responses) :
       \A k \in 1..Len(responses[r].scores) : responses[r].scores[k] \in 0..100
  /\ \A i \in Items : dom[i].ytcScored => scoreMap[i] \in 0..100


\* The position of video i of the running call in its uncached sub-list.
UncachedRank(results, i) == Cardinality({ j \in 1..i : results[j] = NoScore })

\* C17.  A successful call returns one score per video of the message, in the
\* order of the message: the cached score where the video was cached when the
\* message was taken, and otherwise the clamped value the service returned at
\* the video's position in the uncached sub-list, which lists the uncached
\* videos in message order.  The message lists the videos of the batch in
\* batch order, and the content script stores at each element of the batch the
\* score at its position.
C17_MergedInOrder ==
  /\ [][DispatchStep =>
          LET c == Last(calls')
              m == Last(requests')
          IN /\ Len(m.videos) = Len(c.batch)
             /\ \A k \in 1..Len(c.batch) : m.videos[k] = dom[c.batch[k]].video]_vars
  /\ [][TakesMessage =>
          LET m == Head(requests)
              n == Len(m.videos)
          IN IF \A i \in 1..n : Hit(m, i)
             THEN responses' = Append(responses, Ok([i \in 1..n |-> Cached(m, i)]))
             ELSE /\ Len(bg'.results) = n
                  /\ \A i \in 1..n :
                       bg'.results[i] = IF Hit(m, i) THEN Cached(m, i) ELSE NoScore
                  /\ Len(bg'.idx) = Cardinality({ i \in 1..n : ~Hit(m, i) })
                  /\ \A i \in 1..n :
                       ~Hit(m, i) => bg'.idx[UncachedRank(bg'.results, i)] = i]_vars
  /\ [][(bg.pc \in {"fetching", "fetchingAlt"} /\ Len(responses') > Len(responses)
           /\ Last(responses').error = "") =>
          LET sc == Last(responses').scores
          IN /\ Len(sc) = Len(bg.videos)
             /\ Len(decoded') = Len(bg.idx)
             /\ \A i \in 1..Len(bg.videos) :
                  sc[i] = IF bg.results[i] = NoScore
                          THEN Clamp(decoded'[UncachedRank(bg.results, i)])
                          ELSE bg.results[i]]_vars
  /\ [][(calls # <<>> /\ calls' = Tail(calls) /\ responses # <<>>
           /\ Head(responses).error = "") =>
          LET b == Head(calls).batch
          IN \A k \in 1..Len(b) :
               /\ scoreMap'[b[k]] = Head(responses).scores[k]
               /\ dom'[b[k]].ytcScored]_vars

\* C17: the reply to a batch of two is on its way; the first video was cached
\* and keeps its cached score at position 1, the second was sent alone and
\* its score, 1.4 clamped to 1.0, is at position 2.
C17_MergedReply ==
  /\ calls # <<>>
  /\ Head(calls).batch = <<1, 2>>
  /\ dom[1].video = PageVideo
  /\ decoded = <<140>>
  /\ responses = <<Ok(<<25, 100>>)>>


\* C18.  Every failed exchange with the service that ends a call with an
\* error has appended an entry to errorLog by the time the call returns.
C18_FailureLogged ==
  [][(failures' > failures /\ Len(responses') > Len(responses)) =>
       /\ Last(responses').error # ""
       /\ errorLog' # errorLog]_vars


\* C19.  A message taken while no API key is stored is answered at once with
\* an error: no model is selected, no model's last-use time and no cache
\* entry changes, and no request is sent to the service.
C19_NoKeyNoDispatch ==
  [][(bg.pc = "idle" /\ requests # <<>> /\ requests' = Tail(requests) /\ apiKey = "") =>
       /\ Len(responses') = Len(responses) + 1
       /\ Last(responses').error # ""
       /\ bg'.pc = "idle"
       /\ modelIndex' = modelIndex
       /\ lastModel' = lastModel
       /\ modelLastUsed' = modelLastUsed
       /\ scoreCache' = scoreCache
       /\ lastSend' = lastSend]_vars

\* C19: a message with preferences was answered with the API key error
\* while no key is stored.
C19_NoKeyReported ==
  /\ apiKey = ""
  /\ responses = <<Err("No API key set")>>
  /\ bg.pc = "idle"


\* The models whose gap has elapsed at the current instant, given the
\* last-use times mlu.
ReadyModels(mlu) == { m \in 1..NumModels : now - mlu[m] >= PER_MODEL_GAP_MS }

\* Steps of model m (1-based) behind index start (0-based) in round-robin order.
RoundRobinDistance(start, m) == ((m - 1) - start + NumModels) % NumModels

\* r is what a scan from index start returns for last-use times mlu: the
\* first ready model in round-robin order from start or, when none is ready,
\* a model with the smallest remaining wait.
PickedFrom(start, mlu, r) ==
  /\ r \in 1..NumModels
  /\ IF ReadyModels(mlu) # {}
     THEN /\ r \in ReadyModels(mlu)
          /\ \A o \in ReadyModels(mlu) :
               RoundRobinDistance(start, r) <= RoundRobinDistance(start, o)
     ELSE \A o \in 1..NumModels : ModelWait(mlu, r, now) <= ModelWait(mlu, o, now)

\* getNextModel is called for the first send of a call.
FirstChoiceStep == bg.pc = "idle" /\ bg'.pc # "idle"

\* getNextModel is called after a 429, the throttled model penalised.
SecondChoiceStep == bg.pc = "fetching" /\ modelLastUsed'[bg.model] = now + PENALTY_MS

Penalised == [modelLastUsed EXCEPT ![bg.model] = now + PENALTY_MS]

\* C20.  getNextModel always returns a model: the first ready model in
\* round-robin order starting after the index of the model it returned last
\* or, when none is ready, a model with the smallest remaining wait.
C20_AfterLastReturned ==
  /\ [][FirstChoiceStep => PickedFrom(lastModel % NumModels, modelLastUsed, lastModel')]_vars
  /\ [][SecondChoiceStep => PickedFrom(lastModel % NumModels, Penalised, lastModel')]_vars


\* The most entries the log holds: the nine kept and the one pushed.
LogCapacity == LOG_KEEP + 1

\* C21.  The error log never holds more than 10 entries.  A call of logError
\* appends one entry at the end and keeps the entries before it in their
\* order, all of them when the log was not full and all but the oldest when
\* it was.
C21_LogBounded ==
  /\ [](Len(errorLog) <= LogCapacity)
  /\ [][\E e \in LogKinds :
          /\ Last(errorLog') = e
          /\ Len(errorLog') = Min(Len(errorLog) + 1, LogCapacity)
          /\ SubSeq(errorLog', 1, Len(errorLog') - 1) =
               (IF Len(errorLog) = LogCapacity THEN Tail(errorLog) ELSE errorLog)]_vars

\* C21: the log is full and its oldest entry differs from the one after it,
\* so that dropping the oldest is seen.
C21_LogFull ==
  /\ Len(errorLog) = LogCapacity
  /\ errorLog[1] # errorLog[2]
  /\ Last(errorLog) # errorLog[1]


\* The debounce timer fires: a processing attempt of the observer.
AttemptStep == debounceTimer # NoTimer /\ debounceTimer' = NoTimer

\* C22.  A mutation signal only restarts the quiet period: the timer is set
\* to fire DEBOUNCE_MS later, whatever it was, and nothing is processed.  An
\* attempt is made only when the timer is due, it leaves no timer behind, and
\* it runs processVideos only if the item count differs from lastVideoCount,
\* which then takes the count; with the count unchanged the attempt changes
\* nothing of the content script and sends nothing.
C22_DebouncedAndGated ==
  /\ [](debounceTimer # NoTimer => debounceTimer <= now + DEBOUNCE_MS)
  /\ [][debounceTimer' \notin {debounceTimer, NoTimer} =>
          /\ debounceTimer' = now + DEBOUNCE_MS
          /\ now' = now
          /\ calls' = calls
          /\ requests' = requests
          /\ lastVideoCount' = lastVideoCount
          /\ \A i \in Items : dom'[i] = dom[i]]_vars
  /\ [][AttemptStep =>
          /\ now >= debounceTimer
          /\ IF Len(dom) = lastVideoCount
             THEN UNCHANGED <<dom, scoringInProgress, calls, requests, lastVideoCount,
                              lastErrorTime, scoreMap>>
             ELSE lastVideoCount' = Len(dom)]_vars
  /\ [][lastVideoCount' # lastVideoCount => AttemptStep]_vars

\* C22: a quiet period has ended after a burst that left the item count as
\* it was at the last attempt, while an element is unscored and visible and
\* no batch is in flight: the attempt about to be made is gated.
C22_GatedAttemptDue ==
  /\ debounceTimer # NoTimer
  /\ now >= debounceTimer
  /\ Len(dom) = lastVideoCount
  /\ ~scoringInProgress
  /\ \E i \in Items : ~dom[i].ytcScored /\ dom[i].ytcFilter = ""


\* The (video, preferences) pairs whose lookups use cache key key.
TriplesOf(key) == { t \in KeyVideos \X {"p"} : CacheKey(t[1], t[2]) = key }

\* C23.  Every cache entry belongs to exactly one (title, channel,
\* preferences) triple, and a call answered from the cache alone returns a
\* score that a call for the same triple stored.
C23_KeysUnique ==
  /\ [](\A key \in DOMAIN scoreCache : Cardinality(TriplesOf(key)) = 1)
  /\ [][(TakesMessage /\ bg'.pc = "idle") =>
          \A i \in 1..Len(Head(requests).videos) :
            TriplesOf(CacheKey(Head(requests).videos[i], Head(requests).preferences))
              = { <<Head(requests).videos[i], Head(requests).preferences>> }]_vars


\* C24.  The thresholds in force satisfy 0 <= hide <= dim <= 1, for the
\* levels 1..5 and for a value outside the table, whose thresholds are those
\* of level 3; the same holds of every value a slider or a missing setting
\* can give.
C24_ThresholdsOrdered ==
  /\ LET t == getThresholds(currentStrictness)
     IN /\ 0 <= t.hide /\ t.hide <= t.dim /\ t.dim <= 100
        /\ currentStrictness \notin 1..5 => t = getThresholds(3)
  /\ \A s \in 0..7 :
       /\ 0 <= getThresholds(s).hide
       /\ getThresholds(s).hide <= getThresholds(s).dim
       /\ getThresholds(s).dim <= 100
       /\ s \notin 1..5 => getThresholds(s) = [hide |-> 20, dim |-> 50]

\* C24: the stored strictness is outside the table and the element was
\* filtered with the thresholds of level 3: 0.2 is dimmed.
C24_FallbackApplied ==
  /\ currentStrictness = 6
  /\ \E i \in Items :
       /\ dom[i].ytcScored
       /\ scoreMap[i] = 20
       /\ dom[i].ytcFilter = "dimmed"


\* How visible a class is: hidden < dimmed < shown.
Visibility(class) == IF class = "hidden" THEN 0 ELSE IF class = "dimmed" THEN 1 ELSE 2

\* C28.  Strictness is monotone.  The class applyFilter gives a score in
\* [0,1] at a level b of 1..5 is never more visible than the class it gives
\* at a lower level a; and when the strictness in force is raised, from a
\* level of 1..5 to a higher one, no scored element becomes more visible on
\* the page than it was, in its class or in what the page shows of it.
C28_StrictnessMonotone ==
  /\ [](\A i \in Items :
          (dom[i].ytcScored /\ scoreMap[i] \in 0..100) =>
            \A a, b \in 1..5 :
              a < b =>
                Visibility(applyFilter(dom[i], scoreMap[i], b).ytcFilter)
                  <= Visibility(applyFilter(dom[i], scoreMap[i], a).ytcFilter))
  /\ [][(currentStrictness \in 1..5 /\ currentStrictness' \in 1..5
           /\ currentStrictness < currentStrictness') =>
          \A i \in Items :
            dom[i].ytcScored =>
              /\ Visibility(dom'[i].ytcFilter) <= Visibility(dom[i].ytcFilter)
              /\ Visibility(VisualClass(dom'[i])) <= Visibility(VisualClass(dom[i]))]_vars

\* C28: the strictness was raised to level 5 and the element, scored 0.4,
\* is hidden; at the level in force before it was not.
C28_RaisedAndHidden ==
  /\ currentStrictness = 5
  /\ popupEvents = 1
  /\ \E i \in Items :
       /\ dom[i].ytcScored
       /\ scoreMap[i] = 40
       /\ dom[i].ytcFilter = "hidden"
       /\ dom[i].display = "none"


\* C25.  A message sent while the preferences stay as they are lists no
\* element whose data-ytc-scored is set and carries the current preferences;
\* and while the preferences stay as they are an element marked scored stays
\* marked and is in no batch sent.
C25_OnlyUnscoredSent ==
  /\ [][(DispatchStep /\ currentPreferences' = currentPreferences) =>
          /\ Last(calls').preferences = currentPreferences
          /\ Last(requests').preferences = currentPreferences
          /\ \A i \in SeqToSet(Last(calls').batch) : ~dom[i].ytcScored]_vars
  /\ [][\A i \in Items :
          (dom[i].ytcScored /\ currentPreferences' = currentPreferences) =>
            /\ dom'[i].ytcScored
            /\ DispatchStep => i \notin SeqToSet(Last(calls').batch)]_vars

\* C25: a batch is in flight under the current preferences while an element
\* scored under them, left out of the batch, keeps its mark.
C25_ScoredLeftOut ==
  /\ Len(calls) = 1
  /\ Head(calls).preferences = currentPreferences
  /\ Head(calls).batch # <<>>
  /\ \E i \in Items :
       /\ dom[i].ytcScored
       /\ scoreCtx[i] = currentPreferences
       /\ i \notin SeqToSet(Head(calls).batch)


\* C26.  A call that set the in-flight guard releases it when its message
\* settles, with scores, with an error result or by failing; and, the
\* messages settling, a guard that is set is eventually released.
C26_GuardReleased ==
  /\ [][(calls # <<>> /\ calls' = Tail(calls)) => ~scoringInProgress']_vars
  /\ (scoringInProgress ~> ~scoringInProgress)

\* C26: the scoring message failed; the catch logged, nothing recorded the
\* failure, the batch is still pending, and the guard is released.
C26_ReleasedAfterThrow ==
  /\ ~scoringInProgress
  /\ calls = <<>>
  /\ failures = 1
  /\ lastErrorTime = 0
  /\ \E i \in Items : dom[i].ytcFilter = "pending"


\* C27.  An element left unscored by a failed batch, or made pending by a run
\* of processVideos that sent nothing, is scored in the end: once the error
\* cooldown has elapsed, with filtering enabled and preferences set, with no
\* batch in flight, no attempt pending and no further change of the item
\* count to come, it is sent again and marked scored.
C27_RetriedAfterCooldown ==
  \A i \in 1..MaxItems :
    (/\ i \in Items
     /\ Len(dom) = MaxItems
     /\ ~dom[i].ytcScored
     /\ filteringEnabled
     /\ currentPreferences # ""
     /\ lastErrorTime # 0
     /\ now - lastErrorTime >= ERROR_COOLDOWN
     /\ ~scoringInProgress
     /\ debounceTimer = NoTimer
     /\ startTimer = NoTimer
     /\ lastVideoCount = Len(dom)
     /\ now + DEBOUNCE_MS <= MaxTimeRetry)
      ~> (i \in Items /\ dom[i].ytcScored)



====
